---- MODULE Spec2Model ----
(***************************************************************************)
(* RegisterMealTool (register_meal): the meal CRUD and daily-summary tool  *)
(* over the user_meals collection.  Each invocation of execute connects,   *)
(* sends at most one request to the store, and closes the connection.      *)
(*                                                                         *)
(* Values.  An object whose property may be absent (an input, mealData, a  *)
(* stored document, an update document) is a function whose DOMAIN is the  *)
(* set of properties that are present.  The driver writes an undefined     *)
(* property as null and a null query value matches a null or missing       *)
(* property, so "absent" also stands for a stored null.                    *)
(* Instants are integers (ticks); a day is DayTicks ticks.  The process's  *)
(* time zone is a fixed offset tz from UTC (no daylight-saving changes).   *)
(* A string handed to new ObjectId / new Date is [hex |-> k] / [iso |-> t] *)
(* when it is well formed and [text |-> s] otherwise.                      *)
(*                                                                         *)
(* HttpStreamClient (the example client): sendRequest posts a payload,     *)
(* reads the response body and hands each result to onComplete / onError.  *)
(* A body is the sequence of its lines, each line one of LineKinds.        *)
(***************************************************************************)
EXTENDS Integers, Sequences, FiniteSets, TLC

VARIABLES
  store,     \* the user_meals collection: _id -> document
  now,       \* the clock read by new Date()
  tz,        \* offset of local time from UTC, in ticks
  nextId,    \* the next ObjectId the driver generates
  pc,        \* per invocation: where execute stands
  conn,      \* per invocation: is its MongoClient connected
  msg,       \* per invocation: the store request it built
  res,       \* per invocation: what execute returns or throws
  calls,     \* invocations started so far
  deleted,   \* ids whose deleteOne succeeded (history)
  created,   \* id -> what a successful create was given and returned (history)
  updated,   \* ids that an updateOne has matched (history)
  sessionId, \* HttpStreamClient: this.sessionId
  at,        \* HttpStreamClient: where sendRequest stands
  header,    \* the mcp-session-id header of the request in flight
  text,      \* the response body, once res.text() has delivered it
  line,      \* the data line the loop is at
  given,     \* the callbacks sendRequest was passed
  log,       \* the callback invocations of this sendRequest, in order
  requests   \* sendRequest calls so far

mvars == <<store, now, tz, nextId, pc, conn, msg, res, calls, deleted, created,
           updated>>
cvars == <<sessionId, at, header, text, line, given, log, requests>>
vars == <<mvars, cvars>>

(* ------------------------------ bounds -------------------------------- *)
MaxCalls == 3
MaxTime == 3
MaxDate == 5
MaxIds == 2
MaxNum == 1
FieldCalls == 2
CreateCalls == 1
StartTime == 2
MaxLines == 2
MaxRequests == 2

\* The length of a day, in ticks.
DayTicks == 2

Procs == {1, 2}
Users == {"u1", "u2"}
TzOffsets == {-1, 0, 1}
Dates == 0..MaxDate
Nums == 0..MaxNum
Strs == {"", "lunch"}

(* ------------------------------ values -------------------------------- *)
\* No session id: this.sessionId = null, a response without the header.
NoSid == "null"
\* The body before res.text() has delivered it.
Unread == <<"unread">>
Nil == [x \in {} |-> x]
Has(r, f) == f \in DOMAIN r
Only(r, F) == [f \in (DOMAIN r \cap F) |-> r[f]]
Prop(k, src, f) == IF Has(src, f) THEN (k :> src[f]) ELSE Nil

NotFound == "Refeicao nao encontrada"
StoreFailure == "MongoServerError"
NoMsg == [kind |-> "none", op |-> "none"]
NoRes == [kind |-> "none"]
Return(ok, d) == [kind |-> "return", success |-> ok, data |-> d]
Throw(e) == [kind |-> "throw", error |-> e]

Hex(k) == [hex |-> k]
Iso(t) == [iso |-> t]
EmptyStr == [text |-> ""]
Garbage == [text |-> "garbage"]

(* ------------------------------- time --------------------------------- *)
\* new Date(s): the instant a well-formed string names, else an Invalid Date.
\* The driver stores an Invalid Date as the epoch; both lie before every
\* instant the clock takes, so one value stands for the two.
InvalidDate == -1
NewDate(s) == IF Has(s, "iso") THEN s.iso ELSE InvalidDate

\* today.setHours(0, 0, 0, 0): the last local midnight at or before t.
LocalMidnight(t) == t - ((t + tz) % DayTicks)
\* tomorrow.setDate(tomorrow.getDate() + 1): the next local midnight.
NextMidnight(d) == d + DayTicks
\* today.toISOString().split('T')[0]: the UTC calendar day of an instant.
UtcDay(t) == t \div DayTicks

(* --------------------------- request building ------------------------- *)
\* A default of 1 for 0.
OrOne(src, f) == IF Has(src, f) /\ src[f] # 0 THEN src[f] ELSE 1
\* x || 0 on an optional number.
OrZero(src, f) == IF Has(src, f) /\ src[f] # 0 THEN src[f] ELSE 0

\* Truthiness of an optional string property: if (mealData.mealType) ...
TruthyStr(src, f) == Has(src, f) /\ src[f] # ""
\* mealData.calories !== undefined
Defined(src, f) == Has(src, f)

MealDate(md) ==
  IF Has(md, "date") /\ md.date # EmptyStr THEN NewDate(md.date) ELSE now

\* The meal with the readings for createdAt and updatedAt exchanged.
NewMealSwapped(inp, c, u) ==
  LET md == inp.mealData IN
    Prop("userId", inp, "userId")
    @@ Prop("mealType", md, "mealType")
    @@ Prop("description", md, "description")
    @@ Prop("calories", md, "calories")
    @@ ("carbs" :> OrZero(md, "carbs"))
    @@ ("protein" :> OrZero(md, "protein"))
    @@ ("fat" :> OrZero(md, "fat"))
    @@ ("date" :> MealDate(md))
    @@ ("createdAt" :> u)
    @@ ("updatedAt" :> c)

\* The document createMeal hands to insertOne.  The object literal reads the
\* clock three times, in order: for date (when none is given), for createdAt
\* (reading c) and for updatedAt (reading u).
NewMeal(inp, c, u) ==
  LET md == inp.mealData IN
    Prop("userId", inp, "userId")
    @@ Prop("mealType", md, "mealType")
    @@ Prop("description", md, "description")
    @@ Prop("calories", md, "calories")
    @@ ("carbs" :> OrZero(md, "carbs"))
    @@ ("protein" :> OrZero(md, "protein"))
    @@ ("fat" :> OrZero(md, "fat"))
    @@ ("date" :> MealDate(md))
    @@ ("createdAt" :> c)
    @@ ("updatedAt" :> u)

SetIfTruthy(md, f) == IF TruthyStr(md, f) THEN (f :> md[f]) ELSE Nil
SetIfDefined(md, f) == IF Defined(md, f) THEN (f :> md[f]) ELSE Nil

\* updateData with updatedAt set only when some field is being set.
UpdateDataUnstamped(md) ==
  LET fields == SetIfTruthy(md, "mealType") @@ SetIfTruthy(md, "description")
                @@ SetIfDefined(md, "calories") @@ SetIfDefined(md, "carbs")
                @@ SetIfDefined(md, "protein") @@ SetIfDefined(md, "fat")
  IN IF fields = Nil THEN Nil ELSE ("updatedAt" :> now) @@ fields

\* updateData that also takes date from mealData.
UpdateDataWithDate(md) ==
  ("updatedAt" :> now)
  @@ SetIfTruthy(md, "mealType")
  @@ SetIfTruthy(md, "description")
  @@ SetIfDefined(md, "calories")
  @@ SetIfDefined(md, "carbs")
  @@ SetIfDefined(md, "protein")
  @@ SetIfDefined(md, "fat")
  @@ (IF Has(md, "date") THEN ("date" :> NewDate(md.date)) ELSE Nil)

\* The $set document updateMeal builds.
UpdateData(md) ==
  ("updatedAt" :> now)
  @@ SetIfTruthy(md, "mealType")
  @@ SetIfTruthy(md, "description")
  @@ SetIfDefined(md, "calories")
  @@ SetIfDefined(md, "carbs")
  @@ SetIfDefined(md, "protein")
  @@ SetIfDefined(md, "fat")

\* new ObjectId(mealId): a fresh id for undefined, the id a 24-digit hex
\* string names, and a BSON error for any other string.
ValidId(inp) == ~Has(inp, "mealId") \/ Has(inp.mealId, "hex")
ObjectIdOf(inp) == IF Has(inp, "mealId") THEN inp.mealId.hex ELSE nextId

\* The filter and bounds readMeals and getDailySummary give to find.
DayQuery(inp) ==
  [filter |-> Prop("userId", inp, "userId"),
   gte |-> LocalMidnight(now),
   lt |-> NextMidnight(LocalMidnight(now))]

(* ------------------------------ the store ----------------------------- *)
\* The window with its upper bound included ($lte for $lt).
InRangeClosed(doc, q) == Has(doc, "date") /\ doc.date >= q.gte /\ doc.date <= q.lt
\* The window with its lower bound excluded ($gt for $gte).
InRangeOpen(doc, q) == Has(doc, "date") /\ doc.date > q.gte /\ doc.date < q.lt
InRange(doc, q) == Has(doc, "date") /\ doc.date >= q.gte /\ doc.date < q.lt
\* The query without its userId filter.
MatchesAnyUser(doc, q) == InRange(doc, q)
Matches(doc, q) == Only(doc, {"userId"}) = q.filter /\ InRange(doc, q)
Found(q) == {id \in DOMAIN store : Matches(store[id], q)}

\* Every order in which a cursor can deliver the documents of S.
Orders(S) ==
  {s \in [1..Cardinality(S) -> S] : \A i, j \in DOMAIN s : s[i] = s[j] => i = j}
ByDate(s) == \A i, j \in DOMAIN s : i < j => store[s[i]].date <= store[s[j]].date
\* find(q).sort({date: 1}).toArray() and find(q).toArray(), as id sequences.
Cursor(q, sorted) == {s \in Orders(Found(q)) : sorted => ByDate(s)}

\* replaceOne for updateOne: the document is replaced by the $set document.
Replaced(doc, set) == set @@ Only(doc, {"_id"})
\* updateOne({_id}, {$set}): the document after the update.
Updated(doc, set) == set @@ doc

(* ------------------------------ responses ----------------------------- *)
MealFields == {"mealType", "description", "calories", "carbs", "protein", "fat"}
ReadView(doc) == ("id" :> Hex(doc._id)) @@ Only(doc, MealFields \cup {"date"})
SummaryView(doc) == ("id" :> Hex(doc._id)) @@ Only(doc, MealFields)

RECURSIVE Total(_, _)
\* meals.reduce(... acc + (meal.f || 0) ...)
Total(docs, f) ==
  IF docs = <<>> THEN 0
  ELSE Total(SubSeq(docs, 1, Len(docs) - 1), f) + OrZero(docs[Len(docs)], f)

\* The reduce with totalCarbs accumulating meal.calories.
SummaryMispasted(docs) ==
  [totalCalories |-> Total(docs, "calories"),
   totalCarbs |-> Total(docs, "calories"),
   totalProtein |-> Total(docs, "protein"),
   totalFat |-> Total(docs, "fat"),
   mealCount |-> Len(docs)]

Summary(docs) ==
  [totalCalories |-> Total(docs, "calories"),
   totalCarbs |-> Total(docs, "carbs"),
   totalProtein |-> Total(docs, "protein"),
   totalFat |-> Total(docs, "fat"),
   mealCount |-> Len(docs)]

Docs(ids) == [i \in DOMAIN ids |-> store[ids[i]]]

ReadResult(ids) ==
  Return(TRUE, [meals |-> [i \in DOMAIN ids |-> ReadView(store[ids[i]])],
                totalMeals |-> Len(ids)])

SummaryResult(q, ids) ==
  Return(TRUE, [date |-> UtcDay(q.gte),
                summary |-> Summary(Docs(ids)),
                meals |-> [i \in DOMAIN ids |-> SummaryView(store[ids[i]])]])

(* ------------------------------- inputs ------------------------------- *)
OptUser == {Nil} \cup {("userId" :> u) : u \in Users}
MealIdStrs == {Hex(k) : k \in 1..MaxIds} \cup {Garbage}
OptMealId == {Nil} \cup {("mealId" :> m) : m \in MealIdStrs}
OptData(M) == {Nil} \cup {("mealData" :> md) : md \in M}

\* The inputs of execute whose mealData, when present, is drawn from C for a
\* create and from M for an update.
InputsOf(C, M) ==
  {("operation" :> "create") @@ u @@ d : u \in OptUser, d \in OptData(C)}
  \cup {("operation" :> o) @@ u : o \in {"read", "daily_summary"}, u \in OptUser}
  \cup {("operation" :> "update") @@ i @@ d : i \in OptMealId, d \in OptData(M)}
  \cup {("operation" :> "delete") @@ i : i \in OptMealId}
  \cup {("operation" :> "purge") @@ u : u \in {Nil}}

\* The same, and update and delete inputs that also carry a userId.
InputsWithUser(C, M) ==
  InputsOf(C, M)
  \cup {("operation" :> "update") @@ ("userId" :> u) @@ i @@ d :
          u \in Users, i \in OptMealId, d \in OptData(M)}
  \cup {("operation" :> "delete") @@ ("userId" :> u) @@ i :
          u \in Users, i \in OptMealId}

\* mealData with every subset of the six meal fields, over Strs and Nums.
StrFields == {"mealType", "description"}
NumFields == {"calories", "carbs", "protein", "fat"}
FieldData ==
  {s @@ n : s \in UNION {[F -> Strs] : F \in SUBSET StrFields},
            n \in UNION {[F -> Nums] : F \in SUBSET NumFields}}

(* ------------------------------- actions ------------------------------ *)
InitIn(Z) ==
  /\ store = Nil
  /\ now = StartTime
  /\ tz \in Z
  /\ nextId = 1
  /\ pc = [p \in Procs |-> "idle"]
  /\ conn = [p \in Procs |-> FALSE]
  /\ msg = [p \in Procs |-> NoMsg]
  /\ res = [p \in Procs |-> NoRes]
  /\ calls = 0
  /\ deleted = {}
  /\ created = Nil
  /\ updated = {}
  /\ sessionId = NoSid
  /\ at = "idle"
  /\ header = NoSid
  /\ text = Unread
  /\ line = 0
  /\ given = {}
  /\ log = <<>>
  /\ requests = 0

\* The clock advances.
Tick(T) ==
  /\ UNCHANGED cvars
  /\ now < T
  /\ now' = now + 1
  /\ UNCHANGED <<store, tz, nextId, pc, conn, msg, res, calls, deleted,
                 created, updated>>

\* execute is called: new MongoClient(...), client.connect() is awaited.
Call(p, n) ==
  /\ UNCHANGED cvars
  /\ pc[p] = "idle"
  /\ calls < n
  /\ calls' = calls + 1
  /\ pc' = [pc EXCEPT ![p] = "connecting"]
  /\ UNCHANGED <<store, now, tz, nextId, conn, msg, res, deleted, created,
                 updated>>

\* client.connect() resolves.
Connect(p) ==
  /\ UNCHANGED cvars
  /\ pc[p] = "connecting"
  /\ conn' = [conn EXCEPT ![p] = TRUE]
  /\ pc' = [pc EXCEPT ![p] = "connected"]
  /\ UNCHANGED <<store, now, tz, nextId, msg, res, calls, deleted, created,
                 updated>>

\* client.connect() rejects: the await at the top of execute throws.
ConnectFails(p) ==
  /\ UNCHANGED cvars
  /\ pc[p] = "connecting"
  /\ res' = [res EXCEPT ![p] = Throw("MongoNetworkError")]
  /\ pc' = [pc EXCEPT ![p] = "done"]
  /\ UNCHANGED <<store, now, tz, nextId, conn, msg, calls, deleted, created,
                 updated>>

\* execute without the finally block: the invocation ends without closing.
LeaveUnclosed(p, o, r) ==
  /\ msg' = [msg EXCEPT ![p] = [kind |-> "none", op |-> o]]
  /\ res' = [res EXCEPT ![p] = r]
  /\ pc' = [pc EXCEPT ![p] = "done"]
  /\ UNCHANGED <<store, now, tz, nextId, conn, calls, deleted, created,
                 updated>>

\* A handler throws, or the switch returns, before any request is sent:
\* control passes to the finally block.  o is the operation dispatched on.
Leave(p, o, r) ==
  /\ msg' = [msg EXCEPT ![p] = [kind |-> "none", op |-> o]]
  /\ res' = [res EXCEPT ![p] = r]
  /\ pc' = [pc EXCEPT ![p] = "closing"]
  /\ UNCHANGED <<store, now, tz, nextId, conn, calls, deleted, created,
                 updated>>

\* The handler has built its request and awaits the store.
Send(p, m) ==
  /\ msg' = [msg EXCEPT ![p] = m]
  /\ pc' = [pc EXCEPT ![p] = "sent"]
  /\ UNCHANGED <<store, tz, conn, res, calls, deleted, created, updated>>

\* The store has answered; the handler returns r or throws it.
Reply(p, r) ==
  /\ res' = [res EXCEPT ![p] = r]
  /\ pc' = [pc EXCEPT ![p] = "closing"]
  /\ UNCHANGED <<now, tz, nextId, conn, msg, calls>>

\* createMeal with an _id that is the lowest one not in the store.
createMealReusingId(p, I) ==
  /\ UNCHANGED cvars
  /\ pc[p] = "connected"
  /\ \E inp \in I :
    /\ inp.operation = "create"
    /\ Has(inp, "mealData")
    /\ nextId <= MaxIds
    /\ nextId' = nextId + 1
    /\ now' = now
    /\ Send(p, [op |-> "create", kind |-> "insertOne",
                user |-> Prop("userId", inp, "userId"),
                data |-> inp.mealData,
                doc |-> ("_id" :> (CHOOSE k \in 1..MaxIds :
                                     /\ k \notin DOMAIN store
                                     /\ \A j \in 1..(k - 1) : j \in DOMAIN store))
                        @@ NewMeal(inp, now, now)])

createMeal(p, I) ==
  /\ UNCHANGED cvars
  /\ pc[p] = "connected"
  /\ \E inp \in I :
    /\ inp.operation = "create"
    /\ IF ~Has(inp, "mealData")
         THEN Leave(p, "create", Throw("TypeError"))
         ELSE /\ nextId <= MaxIds
              /\ nextId' = nextId + 1
              /\ \E c \in now..MaxTime : \E u \in c..MaxTime :
                   /\ now' = u
                   /\ Send(p, [op |-> "create", kind |-> "insertOne",
                               user |-> Prop("userId", inp, "userId"),
                               data |-> inp.mealData,
                               doc |-> ("_id" :> nextId) @@ NewMeal(inp, c, u)])

\* readMeals without .sort({date: 1}).
readMealsUnsorted(p, I) ==
  /\ UNCHANGED cvars
  /\ pc[p] = "connected"
  /\ \E inp \in I :
    /\ inp.operation = "read"
    /\ UNCHANGED <<nextId, now>>
    /\ Send(p, [op |-> "read", kind |-> "find", at |-> now,
                q |-> DayQuery(inp), sorted |-> FALSE])

readMeals(p, I) ==
  /\ UNCHANGED cvars
  /\ pc[p] = "connected"
  /\ \E inp \in I :
    /\ inp.operation = "read"
    /\ UNCHANGED <<nextId, now>>
    /\ Send(p, [op |-> "read", kind |-> "find", at |-> now,
                q |-> DayQuery(inp), sorted |-> TRUE])

updateMeal(p, I) ==
  /\ UNCHANGED cvars
  /\ pc[p] = "connected"
  /\ \E inp \in I :
    /\ inp.operation = "update"
    /\ IF ~Has(inp, "mealData") THEN Leave(p, "update", Throw("TypeError"))
       ELSE IF ~ValidId(inp) THEN Leave(p, "update", Throw("BSONError"))
       ELSE /\ Has(inp, "mealId") \/ nextId <= MaxIds
            /\ nextId' = IF Has(inp, "mealId") THEN nextId ELSE nextId + 1
            /\ now' = now
            /\ Send(p, [op |-> "update", kind |-> "updateOne", at |-> now,
                        user |-> Prop("userId", inp, "userId"),
                        id |-> ObjectIdOf(inp), data |-> inp.mealData,
                        set |-> UpdateData(inp.mealData)])

deleteMeal(p, I) ==
  /\ UNCHANGED cvars
  /\ pc[p] = "connected"
  /\ \E inp \in I :
    /\ inp.operation = "delete"
    /\ IF ~ValidId(inp) THEN Leave(p, "delete", Throw("BSONError"))
       ELSE /\ Has(inp, "mealId") \/ nextId <= MaxIds
            /\ nextId' = IF Has(inp, "mealId") THEN nextId ELSE nextId + 1
            /\ now' = now
            /\ Send(p, [op |-> "delete", kind |-> "deleteOne",
                        user |-> Prop("userId", inp, "userId"),
                        id |-> ObjectIdOf(inp)])

\* getDailySummary without today.setHours(0, 0, 0, 0): the window starts now.
getDailySummaryFromNow(p, I) ==
  /\ UNCHANGED cvars
  /\ pc[p] = "connected"
  /\ \E inp \in I :
    /\ inp.operation = "daily_summary"
    /\ UNCHANGED <<nextId, now>>
    /\ Send(p, [op |-> "daily_summary", kind |-> "find", at |-> now,
                q |-> [DayQuery(inp) EXCEPT !.gte = now, !.lt = now + DayTicks],
                sorted |-> FALSE])

getDailySummary(p, I) ==
  /\ UNCHANGED cvars
  /\ pc[p] = "connected"
  /\ \E inp \in I :
    /\ inp.operation = "daily_summary"
    /\ UNCHANGED <<nextId, now>>
    /\ Send(p, [op |-> "daily_summary", kind |-> "find", at |-> now,
                q |-> DayQuery(inp), sorted |-> FALSE])

\* The default branch throwing instead of returning the envelope.
UnsupportedThrows(p, I) ==
  /\ UNCHANGED cvars
  /\ pc[p] = "connected"
  /\ \E inp \in I :
    /\ inp.operation \notin
         {"create", "read", "update", "delete", "daily_summary"}
    /\ Leave(p, inp.operation, Throw("Operacao nao suportada"))

\* switch (operation) default:
Unsupported(p, I) ==
  /\ UNCHANGED cvars
  /\ pc[p] = "connected"
  /\ \E inp \in I :
    /\ inp.operation \notin
         {"create", "read", "update", "delete", "daily_summary"}
    /\ Leave(p, inp.operation, Return(FALSE, "Operacao nao suportada"))

\* insertOne is applied; createMeal returns the meal with its id.
InsertOne(p) ==
  /\ UNCHANGED cvars
  /\ pc[p] = "sent"
  /\ msg[p].kind = "insertOne"
  /\ store' = (msg[p].doc._id :> msg[p].doc) @@ store
  /\ created' = (msg[p].doc._id :> [user |-> msg[p].user, data |-> msg[p].data,
                                    meal |-> msg[p].doc]) @@ created
  /\ UNCHANGED <<deleted, updated>>
  /\ Reply(p, Return(TRUE, [mealId |-> Hex(msg[p].doc._id), meal |-> msg[p].doc]))

\* find(...).toArray() is answered; the handler maps the documents.
Find(p) ==
  /\ UNCHANGED cvars
  /\ pc[p] = "sent"
  /\ msg[p].kind = "find"
  /\ UNCHANGED <<store, deleted, created, updated>>
  /\ \E ids \in Cursor(msg[p].q, msg[p].sorted) :
       Reply(p, IF msg[p].op = "read" THEN ReadResult(ids)
                ELSE SummaryResult(msg[p].q, ids))

\* deleteMany({}) in place of deleteOne({_id}).
WithoutAny(f, k) == IF k \in DOMAIN f THEN Nil ELSE f
\* The collection without the document whose _id is k.
Without(f, k) == [x \in DOMAIN f \ {k} |-> f[x]]

\* result.matchedCount returned in place of result.modifiedCount.
MatchedCount(id, set) == IF id \in DOMAIN store THEN 1 ELSE 0
\* result.modifiedCount: 1 when the $set changed the matched document.
ModifiedCount(id, set) == IF Updated(store[id], set) = store[id] THEN 0 ELSE 1

\* updateOne with {upsert: true}: a missing document is inserted.
UpdateOneUpsert(p) ==
  /\ UNCHANGED cvars
  /\ pc[p] = "sent"
  /\ msg[p].kind = "updateOne"
  /\ UNCHANGED <<deleted, created>>
  /\ updated' = updated \cup (DOMAIN store \cap {msg[p].id})
  /\ store' = (msg[p].id :> Updated(IF msg[p].id \in DOMAIN store
                                      THEN store[msg[p].id]
                                      ELSE [_id |-> msg[p].id], msg[p].set))
               @@ store
  /\ Reply(p, Return(TRUE, [modifiedCount |-> 1]))

\* updateOne without the matchedCount check.
UpdateOneUnchecked(p) ==
  /\ UNCHANGED cvars
  /\ pc[p] = "sent"
  /\ msg[p].kind = "updateOne"
  /\ UNCHANGED <<deleted, created>>
  /\ updated' = updated \cup (DOMAIN store \cap {msg[p].id})
  /\ store' = [id \in DOMAIN store |->
                IF id = msg[p].id THEN Updated(store[id], msg[p].set)
                ELSE store[id]]
  /\ Reply(p, Return(TRUE, [modifiedCount |->
         IF msg[p].id \in DOMAIN store
           THEN ModifiedCount(msg[p].id, msg[p].set) ELSE 0]))

\* updateOne with the filter {_id, userId}: only the owner's update matches.
UpdateOneOwned(p) ==
  /\ UNCHANGED cvars
  /\ pc[p] = "sent"
  /\ msg[p].kind = "updateOne"
  /\ UNCHANGED <<deleted, created>>
  /\ IF /\ msg[p].id \in DOMAIN store
        /\ Only(store[msg[p].id], {"userId"}) = msg[p].user
       THEN /\ store' = [store EXCEPT ![msg[p].id] = Updated(@, msg[p].set)]
            /\ updated' = updated \cup {msg[p].id}
            /\ Reply(p, Return(TRUE,
                   [modifiedCount |-> ModifiedCount(msg[p].id, msg[p].set)]))
       ELSE /\ UNCHANGED <<store, updated>>
            /\ Reply(p, Throw(NotFound))

\* updateOne is applied; matchedCount === 0 throws.
UpdateOne(p) ==
  /\ UNCHANGED cvars
  /\ pc[p] = "sent"
  /\ msg[p].kind = "updateOne"
  /\ UNCHANGED <<deleted, created>>
  /\ updated' = updated \cup (DOMAIN store \cap {msg[p].id})
  /\ IF msg[p].id \in DOMAIN store
       THEN /\ store' = [store EXCEPT ![msg[p].id] = Updated(@, msg[p].set)]
            /\ Reply(p, Return(TRUE,
                   [modifiedCount |-> ModifiedCount(msg[p].id, msg[p].set)]))
       ELSE /\ store' = store
            /\ Reply(p, Throw(NotFound))

\* deleteOne without the deletedCount check.
DeleteOneUnchecked(p) ==
  /\ UNCHANGED cvars
  /\ pc[p] = "sent"
  /\ msg[p].kind = "deleteOne"
  /\ store' = Without(store, msg[p].id)
  /\ deleted' = deleted \cup (DOMAIN store \cap {msg[p].id})
  /\ UNCHANGED <<created, updated>>
  /\ Reply(p, Return(TRUE,
         [deletedCount |-> IF msg[p].id \in DOMAIN store THEN 1 ELSE 0]))

\* deleteOne reporting one deletion whether or not the id was stored.
DeleteOneRepeated(p) ==
  /\ UNCHANGED cvars
  /\ pc[p] = "sent"
  /\ msg[p].kind = "deleteOne"
  /\ store' = Without(store, msg[p].id)
  /\ deleted' = deleted \cup (DOMAIN store \cap {msg[p].id})
  /\ UNCHANGED <<created, updated>>
  /\ Reply(p, Return(TRUE, [deletedCount |-> 1]))

\* deleteOne is applied; deletedCount === 0 throws.
DeleteOne(p) ==
  /\ UNCHANGED cvars
  /\ pc[p] = "sent"
  /\ msg[p].kind = "deleteOne"
  /\ UNCHANGED <<created, updated>>
  /\ IF msg[p].id \in DOMAIN store
       THEN /\ store' = Without(store, msg[p].id)
            /\ deleted' = deleted \cup {msg[p].id}
            /\ Reply(p, Return(TRUE, [deletedCount |-> 1]))
       ELSE /\ UNCHANGED <<store, deleted>>
            /\ Reply(p, Throw(NotFound))

\* A failed request is retried: the handler is dispatched again.
RequestFailsRetry(p) ==
  /\ UNCHANGED cvars
  /\ pc[p] = "sent"
  /\ pc' = [pc EXCEPT ![p] = "connected"]
  /\ msg' = [msg EXCEPT ![p] = NoMsg]
  /\ UNCHANGED <<store, now, tz, nextId, conn, res, calls, deleted, created,
                 updated>>

\* The store request fails (it is not applied): the awaited call rejects.
RequestFails(p) ==
  /\ UNCHANGED cvars
  /\ pc[p] = "sent"
  /\ UNCHANGED <<store, deleted, created, updated>>
  /\ Reply(p, Throw(StoreFailure))

\* finally { await client.close() }: then execute returns or rethrows.
Close(p) ==
  /\ UNCHANGED cvars
  /\ pc[p] = "closing"
  /\ conn' = [conn EXCEPT ![p] = FALSE]
  /\ msg' = [msg EXCEPT ![p] = NoMsg]
  /\ pc' = [pc EXCEPT ![p] = "done"]
  /\ UNCHANGED <<store, now, tz, nextId, res, calls, deleted, created, updated>>

\* The caller has taken the outcome; the slot is free for another call.
Finish(p) ==
  /\ UNCHANGED cvars
  /\ pc[p] = "done"
  /\ pc' = [pc EXCEPT ![p] = "idle"]
  /\ res' = [res EXCEPT ![p] = NoRes]
  /\ UNCHANGED <<store, now, tz, nextId, conn, msg, calls, deleted, created,
                 updated>>

\* One step of invocation p of execute, its input drawn from I, while fewer
\* than n invocations have started.  execute first reads its input after
\* the connection is made (the destructuring before the switch), so each
\* handler draws the input there.
Execute(p, I, n) ==
  \/ Call(p, n)
  \/ Connect(p)
  \/ ConnectFails(p)
  \/ createMeal(p, I)
  \/ readMeals(p, I)
  \/ updateMeal(p, I)
  \/ deleteMeal(p, I)
  \/ getDailySummary(p, I)
  \/ Unsupported(p, I)
  \/ InsertOne(p)
  \/ Find(p)
  \/ UpdateOne(p)
  \/ DeleteOne(p)
  \/ RequestFails(p)
  \/ Close(p)
  \/ Finish(p)

(* --------------------------- specifications -------------------------- *)
\* Concurrent invocations of execute on sample meals, local time = UTC.
Lunch == [mealType |-> "lunch", description |-> "rice", calories |-> MaxNum,
          fat |-> MaxNum]
Snack == [mealType |-> "snack", description |-> "nuts", carbs |-> MaxNum,
          protein |-> MaxNum]
Inputs == InputsOf({Lunch, Snack}, {Lunch})
Init == InitIn({0})
Next == Tick(MaxTime) \/ \E p \in Procs : Execute(p, Inputs, MaxCalls)
Spec == Init /\ [][Next]_vars

\* One invocation at a time; update is given every combination of the six
\* meal fields, on a meal created with all six set to truthy values.
Dinner == [mealType |-> "dinner", description |-> "soup", calories |-> 1,
           carbs |-> 1, protein |-> 1, fat |-> 1]
FieldInputs == InputsOf({Dinner}, FieldData)
NextFields == Tick(MaxTime) \/ \E p \in {1} : Execute(p, FieldInputs, FieldCalls)
SpecFields == Init /\ [][NextFields]_vars

\* One invocation at a time, in every time zone; create is given every date
\* string: none, empty, unparsable, and each instant of the model's days.
DateStrs == {Iso(t) : t \in Dates} \cup {EmptyStr, Garbage}
DatedMeals ==
  {[mealType |-> "lunch", description |-> "rice", calories |-> 1] @@ d :
     d \in {Nil} \cup {("date" :> x) : x \in DateStrs}}
\* update is given a mealData without and with a date.
DatedUpdates == {Lunch, Lunch @@ ("date" :> Iso(0))}
DayInputs == InputsOf(DatedMeals, DatedUpdates)
NextDay == Tick(MaxTime) \/ \E p \in {1} : Execute(p, DayInputs, MaxCalls)
SpecDay == InitIn(TzOffsets) /\ [][NextDay]_vars

\* One invocation; create is given every combination of the six meal fields
\* and a meal with numbers below zero (the schema takes any z.number()).
Refund == [mealType |-> "lunch", description |-> "rice", calories |-> -1,
           carbs |-> -1]
CreateInputs == InputsOf(FieldData \cup {Refund}, {Lunch, Refund})
NextCreate ==
  Tick(MaxTime) \/ \E p \in {1} : Execute(p, CreateInputs, CreateCalls)
SpecCreate == Init /\ [][NextCreate]_vars

\* One invocation at a time; update and delete come without a userId, with
\* the owner's and with another user's.
OwnerInputs == InputsWithUser({Lunch}, {Snack})
NextOwner == Tick(MaxTime) \/ \E p \in {1} : Execute(p, OwnerInputs, MaxCalls)
SpecOwner == Init /\ [][NextOwner]_vars

\* Concurrent invocations whose updates supply disjoint fields (calories
\* and mealType against carbs), the same field with different values, and
\* an empty string.
RaceData == {[mealType |-> "lunch", calories |-> 0], [carbs |-> 0],
             [mealType |-> "", calories |-> MaxNum]}
RaceInputs == InputsOf({Dinner}, RaceData)
NextRace == Tick(MaxTime) \/ \E p \in Procs : Execute(p, RaceInputs, MaxCalls)
SpecRace == Init /\ [][NextRace]_vars

(* ---------------------------- HttpStreamClient ------------------------ *)
\* A response body is its lines: an SSE data line whose payload is JSON or
\* is not, a line that is a JSON document, an SSE event line, a blank line.
LineKinds == {"data:json", "data:bad", "json", "event:", ""}
Texts == UNION {[1..n -> LineKinds] : n \in 0..MaxLines}
Sids == {NoSid, "s1", "s2"}
Callbacks == {"onComplete", "onError"}

\* !text || text.trim() === ""
Blank(t) == \A i \in DOMAIN t : t[i] = ""
StartsWithData(l) == l \in {"data:json", "data:bad"}
\* text.split('\n').filter(line => line.startsWith('data:'))
dataLines(t) == SelectSeq(t, StartsWithData)
\* JSON.parse(jsonStr) returns
ParsesLine(l) == l = "data:json"
\* JSON.parse(text) returns: one document, with white space around it.
ParsesText(t) ==
  /\ \A i \in DOMAIN t : t[i] \in {"json", ""}
  /\ Cardinality({i \in DOMAIN t : t[i] = "json"}) = 1
\* What the try blocks parse, in order: each data line, or else the text.
Items(t) ==
  IF dataLines(t) # <<>>
    THEN [i \in DOMAIN dataLines(t) |-> ParsesLine(dataLines(t)[i])]
    ELSE <<ParsesText(t)>>

\* cb && cb(...): the callback, when one was passed, is invoked ...
Invoke(cb, k) ==
  log' = IF cb \in given THEN Append(log, [cb |-> cb, line |-> k]) ELSE log
\* ... and returns or throws.
Outcomes(cb) == IF cb \in given THEN {"returns", "throws"} ELSE {"returns"}

\* The end of a try/catch: the loop goes to the next data line, or
\* sendRequest returns.
Advance ==
  IF line < Len(Items(text))
    THEN at' = "try" /\ line' = line + 1
    ELSE at' = "resolved" /\ line' = line

\* sendRequest is called: the headers are built and fetch is awaited.
sendRequest(cbs) ==
  /\ at \in {"idle", "resolved", "rejected"}
  /\ requests < MaxRequests
  /\ requests' = requests + 1
  /\ at' = "fetch"
  /\ header' = sessionId
  /\ given' = cbs
  /\ text' = Unread
  /\ line' = 0
  /\ log' = <<>>
  /\ UNCHANGED <<mvars, sessionId>>

\* fetch rejects: the outer catch is entered.
FetchFails ==
  /\ at = "fetch"
  /\ at' = "outer"
  /\ UNCHANGED <<mvars, sessionId, header, text, line, given, log, requests>>

\* fetch resolves; the first session id seen is kept; res.text() is awaited.
FetchReturns(sid) ==
  /\ at = "fetch"
  /\ sessionId' = IF sid # NoSid /\ sessionId = NoSid THEN sid ELSE sessionId
  /\ at' = "text"
  /\ UNCHANGED <<mvars, header, text, line, given, log, requests>>

\* res.text() rejects: the outer catch is entered.
TextFails ==
  /\ at = "text"
  /\ at' = "outer"
  /\ UNCHANGED <<mvars, sessionId, header, text, line, given, log, requests>>

\* res.text() resolves with the body.
TextArrives(t) ==
  /\ at = "text"
  /\ text' = t
  /\ at' = IF Blank(t) THEN "empty" ELSE "try"
  /\ line' = IF Blank(t) THEN 0 ELSE 1
  /\ UNCHANGED <<mvars, sessionId, header, given, log, requests>>

\* An empty body: onComplete({ok: true, sessionId}); return.
CompleteEmpty ==
  /\ at = "empty"
  /\ Invoke("onComplete", 0)
  /\ \E o \in Outcomes("onComplete") :
       at' = IF o = "throws" THEN "outer" ELSE "resolved"
  /\ UNCHANGED <<mvars, sessionId, header, text, line, given, requests>>

\* An inner try block: JSON.parse, then onComplete(json).
Parse ==
  /\ at = "try"
  /\ IF Items(text)[line]
       THEN /\ Invoke("onComplete", line)
            /\ \E o \in Outcomes("onComplete") :
                 IF o = "throws" THEN at' = "catch" /\ line' = line
                 ELSE Advance
       ELSE at' = "catch" /\ UNCHANGED <<line, log>>
  /\ UNCHANGED <<mvars, sessionId, header, text, given, requests>>

\* An inner catch block: onError(err).
Catch ==
  /\ at = "catch"
  /\ Invoke("onError", line)
  /\ \E o \in Outcomes("onError") :
       IF o = "throws" THEN at' = "outer" /\ line' = line
       ELSE Advance
  /\ UNCHANGED <<mvars, sessionId, header, text, given, requests>>

\* The outer catch block: onError(err); what it throws rejects the promise.
OuterCatch ==
  /\ at = "outer"
  /\ Invoke("onError", 0)
  /\ \E o \in Outcomes("onError") :
       at' = IF o = "throws" THEN "rejected" ELSE "resolved"
  /\ UNCHANGED <<mvars, sessionId, header, text, line, given, requests>>

NextClient ==
  \/ \E cbs \in SUBSET Callbacks : sendRequest(cbs)
  \/ FetchFails
  \/ \E sid \in Sids : FetchReturns(sid)
  \/ TextFails
  \/ \E t \in Texts : TextArrives(t)
  \/ CompleteEmpty
  \/ Parse
  \/ Catch
  \/ OuterCatch
SpecClient == Init /\ [][NextClient]_vars

(* ------------------------------- claims ------------------------------- *)
\* In this step the store answers the request of invocation p.
Answers(p) == pc[p] = "sent" /\ pc'[p] = "closing"
\* ... and the request did not fail in the store.
Served(p) == Answers(p) /\ res'[p] # Throw(StoreFailure)

\* C1: every failure of execute is delivered as a returned envelope
\* {success: false, data}: no invocation ends by throwing to its caller.
C1_NoErrorEscapes ==
  \A p \in Procs : pc[p] = "done" => res[p].kind = "return"

\* In this step the store applies the update of invocation p to a record.
Updates(p) ==
  Served(p) /\ msg[p].kind = "updateOne" /\ msg[p].id \in DOMAIN store

\* C2: a successful update is sparse: each of the six meal fields that the
\* request's mealData does not supply has the same stored value (or the
\* same absence) after the update as before it.
C2_SparseUpdate ==
  [][\A p \in Procs :
       Updates(p) =>
         /\ res'[p].kind = "return"
         /\ \A f \in MealFields \ DOMAIN msg[p].data :
              Only(store'[msg[p].id], {f}) = Only(store[msg[p].id], {f})]_vars

C2_Witness ==
  \E p \in Procs :
    /\ pc[p] = "closing"
    /\ msg[p].kind = "updateOne"
    /\ res[p].kind = "return"
    /\ msg[p].data = [calories |-> 0]
    /\ Only(store[msg[p].id], MealFields) = [Dinner EXCEPT !.calories = 0]

\* C3: an update writes every meal field its mealData supplies, whatever
\* the value: after a successful update the stored field equals the
\* supplied value, also for 0 and for the empty string.
C3_PresentFieldsWritten ==
  [][\A p \in Procs :
       Updates(p) =>
         \A f \in MealFields \cap DOMAIN msg[p].data :
           Has(store'[msg[p].id], f) /\ store'[msg[p].id][f] = msg[p].data[f]]_vars

\* C4: an update whose mealId matches no stored record fails with the
\* not-found error and leaves the store exactly as it was.
C4_UpdateOfMissingId ==
  [][\A p \in Procs :
       (Served(p) /\ msg[p].kind = "updateOne" /\ msg[p].id \notin DOMAIN store)
         => (res'[p] = Throw(NotFound) /\ store' = store)]_vars

C4_Witness ==
  \E p \in Procs :
    /\ pc[p] = "closing"
    /\ msg[p].kind = "updateOne"
    /\ res[p] = Throw(NotFound)
    /\ store # Nil

\* C5: once a delete has succeeded for an id, no record with that id is ever
\* stored again (no update re-creates it), and no read or daily_summary
\* answered from then on lists it.
C5_DeletionIsPermanent ==
  /\ [](deleted \cap DOMAIN store = {})
  /\ [][\A p \in Procs :
          (Answers(p) /\ msg[p].kind = "find" /\ res'[p].kind = "return")
            => \A i \in DOMAIN res'[p].data.meals :
                 res'[p].data.meals[i].id.hex \notin deleted]_vars

C5_Witness ==
  \E p \in Procs :
    /\ pc[p] = "closing"
    /\ msg[p].kind = "updateOne"
    /\ msg[p].id \in deleted
    /\ res[p] = Throw(NotFound)

\* C6: a delete whose mealId matches no stored record (never created, or
\* already deleted) fails with the not-found error and changes no record.
C6_DeleteOfMissingId ==
  [][\A p \in Procs :
       (Served(p) /\ msg[p].kind = "deleteOne" /\ msg[p].id \notin DOMAIN store)
         => (res'[p] = Throw(NotFound) /\ store' = store)]_vars

C6_Witness ==
  \E p \in Procs :
    /\ pc[p] = "closing"
    /\ msg[p].kind = "deleteOne"
    /\ res[p] = Throw(NotFound)
    /\ store # Nil

\* The local midnight of the day that contains instant t.
StartOfDay(t) ==
  CHOOSE m \in (t - DayTicks + 1)..t : (m + tz) % DayTicks = 0

\* The ids listed by a read or daily_summary response.
Listed(r) == {r.data.meals[i].id.hex : i \in DOMAIN r.data.meals}

C8_ReadOrdered ==
  \A p \in Procs :
    (pc[p] = "closing" /\ msg[p].op = "read" /\ res[p].kind = "return") =>
      \A i, j \in DOMAIN res[p].data.meals :
        i < j => res[p].data.meals[i].date <= res[p].data.meals[j].date

\* A read whose two meals were created in the reverse of their date order.
C8_Witness ==
  \E p \in Procs :
    /\ pc[p] = "closing"
    /\ msg[p].op = "read"
    /\ res[p].kind = "return"
    /\ Len(res[p].data.meals) = 2
    /\ res[p].data.meals[1].date < res[p].data.meals[2].date
    /\ res[p].data.meals[1].id.hex > res[p].data.meals[2].id.hex

\* C9: read and daily_summary are user-scoped: every record they list is
\* stored under the userId of the request (an absent userId matching only
\* records stored without one).
C9_UserScoped ==
  [][\A p \in Procs :
       (Served(p) /\ msg[p].kind = "find") =>
         \A id \in Listed(res'[p]) :
           /\ id \in DOMAIN store
           /\ Only(store[id], {"userId"}) = msg[p].q.filter]_vars

\* A response that lists one of two stored records of the same day, the
\* other belonging to another user.
C9_Witness ==
  \E p \in Procs :
    /\ pc[p] = "closing"
    /\ msg[p].kind = "find"
    /\ res[p].kind = "return"
    /\ Listed(res[p]) # {}
    /\ \E id \in DOMAIN store \ Listed(res[p]) :
         /\ InRange(store[id], msg[p].q)
         /\ Has(store[id], "userId")
         /\ Has(msg[p].q.filter, "userId")

RECURSIVE SumTo(_, _, _)
\* The sum of field f over the first n listed meals, a missing field as 0.
SumTo(meals, f, n) ==
  IF n = 0 THEN 0
  ELSE SumTo(meals, f, n - 1) + (IF Has(meals[n], f) THEN meals[n][f] ELSE 0)

IsSummary(r) == r.kind = "return" /\ r.success /\ Has(r.data, "summary")

\* C10: in every daily_summary response the four totals are the sums of
\* the fields of the meals listed in that response (a missing one as 0) and
\* mealCount is their number; a summary the store serves always succeeds,
\* with all totals 0 when no meal matches.
C10_TotalsMatchMeals ==
  /\ [](\A p \in Procs :
          IsSummary(res[p]) =>
            LET d == res[p].data IN
              /\ d.summary.totalCalories = SumTo(d.meals, "calories", Len(d.meals))
              /\ d.summary.totalCarbs = SumTo(d.meals, "carbs", Len(d.meals))
              /\ d.summary.totalProtein = SumTo(d.meals, "protein", Len(d.meals))
              /\ d.summary.totalFat = SumTo(d.meals, "fat", Len(d.meals))
              /\ d.summary.mealCount = Len(d.meals))
  /\ [][\A p \in Procs :
          (Served(p) /\ msg[p].op = "daily_summary") =>
            /\ IsSummary(res'[p])
            /\ Found(msg[p].q) = {} =>
                 res'[p].data.summary =
                   [totalCalories |-> 0, totalCarbs |-> 0, totalProtein |-> 0,
                    totalFat |-> 0, mealCount |-> 0]]_vars

\* A summary listing a meal with calories while another invocation has a
\* write in flight.
C10_Witness ==
  \E p, q \in Procs :
    /\ p # q
    /\ IsSummary(res[p])
    /\ res[p].data.summary.mealCount >= 1
    /\ res[p].data.summary.totalCalories > 0
    /\ pc[q] = "sent"
    /\ msg[q].kind \in {"insertOne", "updateOne", "deleteOne"}

\* In this step the store applies the insertOne of invocation p.
Inserts(p) == Served(p) /\ msg[p].kind = "insertOne"

\* C11: every create the store serves succeeds and returns a well-formed
\* (non-empty) id that no earlier successful create has returned, also when
\* the record of the earlier id has been deleted since; the id is not the id
\* of a stored record, and the stored records have pairwise distinct ids.
C11_UniqueIds ==
  /\ [](\A i, j \in DOMAIN store : store[i]._id = store[j]._id => i = j)
  /\ [][\A p \in Procs :
          Inserts(p) =>
            /\ res'[p].kind = "return" /\ res'[p].success
            /\ Has(res'[p].data.mealId, "hex")
            /\ res'[p].data.mealId.hex = res'[p].data.meal._id
            /\ res'[p].data.mealId.hex \notin DOMAIN created
            /\ res'[p].data.mealId.hex \notin DOMAIN store
            /\ res'[p].data.mealId.hex \in DOMAIN store']_vars

\* A create that succeeds after an earlier created record was deleted.
C11_Witness ==
  \E p \in Procs :
    /\ pc[p] = "closing"
    /\ msg[p].kind = "insertOne"
    /\ res[p].kind = "return"
    /\ deleted # {}
    /\ DOMAIN store = {res[p].data.mealId.hex}

\* C12: create stores carbs, protein and fat as 0 where mealData lacks them
\* and as the supplied value where it has them; userId, mealType,
\* description and calories are stored as supplied (absent when absent).
C12_CreateDefaults ==
  /\ [](\A id \in DOMAIN created :
          LET c == created[id] IN
            /\ \A f \in {"carbs", "protein", "fat"} :
                 c.meal[f] = IF Has(c.data, f) THEN c.data[f] ELSE 0
            /\ Only(c.meal, {"mealType", "description", "calories"})
                 = Only(c.data, {"mealType", "description", "calories"})
            /\ Only(c.meal, {"userId"}) = c.user)
  /\ [][\A p \in Procs :
          Inserts(p) =>
            /\ store'[msg[p].doc._id] = created'[msg[p].doc._id].meal
            /\ created'[msg[p].doc._id].data = msg[p].data
            /\ created'[msg[p].doc._id].user = msg[p].user]_vars

\* A stored meal created without carbs, with protein 0 and with a positive
\* fat.
C12_Witness ==
  \E id \in DOMAIN store :
    /\ id \in DOMAIN created
    /\ ~Has(created[id].data, "carbs")
    /\ Has(created[id].data, "protein") /\ created[id].data.protein = 0
    /\ Has(created[id].data, "fat") /\ created[id].data.fat = MaxNum
    /\ store[id].carbs = 0 /\ store[id].fat = MaxNum

\* Is this mealData's date a string that names an instant?
Parsable(md) == Has(md, "date") /\ Has(md.date, "iso")

\* C13: every created record has a valid date: the instant its mealData's
\* date names when that parses, and otherwise (absent or unparsable) the
\* time of the call, which is a clock reading no later than createdAt.
C13_ConsumedAt ==
  \A id \in DOMAIN created :
    LET c == created[id] IN
      /\ c.meal.date # InvalidDate
      /\ Parsable(c.data) => c.meal.date = c.data.date.iso
      /\ ~Parsable(c.data) =>
           (StartTime <= c.meal.date /\ c.meal.date <= c.meal.createdAt)

\* The records that a find of user filter u, called at time t, comes after
\* within the day: created for u without a date, at or before t on the local
\* day of t, and not deleted since.
CreatedToday(u, t) ==
  {id \in DOMAIN created \ deleted :
     /\ created[id].user = u
     /\ ~Has(created[id].data, "date")
     /\ created[id].meal.date <= t
     /\ StartOfDay(created[id].meal.date) = StartOfDay(t)}

\* The listed meal e shows the id and the fields of meal m.
Shows(e, m) ==
  /\ e.id = Hex(m._id)
  /\ Only(e, MealFields) = Only(m, MealFields)
  /\ Has(e, "date") => e.date = m.date

\* In this step the store answers a read or daily_summary of a named user.
FindsFor(p) ==
  Served(p) /\ msg[p].kind = "find" /\ Has(msg[p].q.filter, "userId")

\* Every record of S is listed, once, with the fields create returned.
ListedAsCreated(r, S) ==
  \A id \in S :
    /\ Cardinality({i \in DOMAIN r.data.meals : r.data.meals[i].id.hex = id}) = 1
    /\ \A i \in DOMAIN r.data.meals :
         r.data.meals[i].id.hex = id => Shows(r.data.meals[i], created[id].meal)

\* A summary of a day holding exactly two records of S, both created with
\* calories, reports their sum and a count of two.
SumsTwo(p, S) ==
  (/\ msg[p].op = "daily_summary"
   /\ Cardinality(S) = 2
   /\ Found(msg[p].q) = S
   /\ \A id \in S : Has(created[id].data, "calories"))
  => \E a, b \in S :
       /\ a # b
       /\ res'[p].data.summary.mealCount = 2
       /\ res'[p].data.summary.totalCalories =
            created[a].data.calories + created[b].data.calories

\* C14 as stated: a read or daily_summary of user u lists every record
\* created for u without a date earlier on the same local day and not
\* deleted since, with the id and fields create returned; two such creates
\* with calories a and b on an otherwise empty day give a summary with
\* totalCalories = a + b and mealCount = 2.
C14_AsStated ==
  [][\A p \in Procs :
       FindsFor(p) =>
         LET S == CreatedToday(msg[p].q.filter, msg[p].at) IN
           /\ res'[p].kind = "return"
           /\ ListedAsCreated(res'[p], S)
           /\ SumsTwo(p, S)]_vars

\* C14, amended: the same for the records that have been neither deleted nor
\* updated since their creation.
C14_CreatedThenListed ==
  [][\A p \in Procs :
       FindsFor(p) =>
         LET S == CreatedToday(msg[p].q.filter, msg[p].at) \ updated IN
           /\ res'[p].kind = "return"
           /\ ListedAsCreated(res'[p], S)
           /\ SumsTwo(p, S)]_vars

\* A summary with totalCalories 2 * MaxNum over two records created today
\* without a date, answered in a zone where local and UTC days differ.
C14_Witness ==
  \E p \in Procs :
    /\ pc[p] = "closing"
    /\ msg[p].op = "daily_summary"
    /\ res[p].kind = "return"
    /\ tz # 0
    /\ Cardinality(CreatedToday(msg[p].q.filter, msg[p].at) \ updated) = 2
    /\ res[p].data.summary.mealCount = 2
    /\ res[p].data.summary.totalCalories = 2

\* C15: an invocation that has completed holds no open connection, however
\* it ended: by a return, by a thrown error (not found, a failed store
\* request, an error while building the request) or by a failed connect;
\* so when every invocation has completed no connection is open.
C15_ConnectionReleased ==
  \A p \in Procs : pc[p] \in {"done", "idle"} => ~conn[p]

\* Both invocations have completed, one by an error thrown while building
\* its request and one by a thrown answer of the store.
C15_Witness ==
  \E p, q \in Procs :
    /\ pc[p] = "done" /\ res[p] = Throw("BSONError") /\ ~conn[p]
    /\ pc[q] = "done" /\ res[q] \in {Throw(NotFound), Throw(StoreFailure)}
    /\ ~conn[q]

Supported == {"create", "read", "update", "delete", "daily_summary"}

\* C16: when execute dispatches on an operation that is none of the five,
\* it sends no request to the store, leaves every record as it is, and goes
\* on (through the close) to return {success: false, data: message}.
C16_UnsupportedOperation ==
  /\ [][\A p \in Procs :
          (pc[p] = "connected" /\ pc'[p] # "connected"
             /\ msg'[p].op \notin Supported) =>
            /\ pc'[p] = "closing"
            /\ msg'[p].kind = "none"
            /\ store' = store
            /\ res'[p].kind = "return" /\ ~res'[p].success
            /\ res'[p].data = "Operacao nao suportada"]_vars
  /\ [][\A p \in Procs :
          pc[p] = "closing" =>
            /\ pc'[p] \in {"closing", "done"}
            /\ res'[p] = res[p]
            /\ pc'[p] = "done" => store' = store]_vars

\* An unsupported operation has been answered while records are stored.
C16_Witness ==
  \E p \in Procs :
    /\ pc[p] = "closing"
    /\ msg[p].op \notin Supported \cup {"none"}
    /\ res[p] = Return(FALSE, "Operacao nao suportada")
    /\ store # Nil

\* C17: every update that matches a stored record leaves that record with
\* updatedAt = the time the update was called, whatever its mealData holds
\* (nothing, or values equal to the stored ones).
C17_UpdateStamps ==
  [][\A p \in Procs :
       Updates(p) => store'[msg[p].id].updatedAt = msg[p].at]_vars

\* An update with an empty mealData has moved updatedAt past createdAt.
C17_Witness ==
  \E p \in Procs :
    /\ pc[p] = "closing"
    /\ msg[p].kind = "updateOne"
    /\ res[p].kind = "return"
    /\ msg[p].data = Nil
    /\ store[msg[p].id].updatedAt = msg[p].at
    /\ store[msg[p].id].updatedAt > store[msg[p].id].createdAt
    /\ Only(store[msg[p].id], MealFields) = Dinner

Frame == {"_id", "userId", "date", "createdAt"}

\* C19: an update changes none of id, userId, date and createdAt of the
\* record it matches, also when its mealData carries a date; so each stored
\* record has them as create returned them, after any number of updates.
C19_UpdateFrame ==
  /\ [](\A id \in DOMAIN store :
          Only(store[id], Frame) = Only(created[id].meal, Frame))
  /\ [][\A p \in Procs :
          Updates(p) =>
            /\ Only(store'[msg[p].id], Frame) = Only(store[msg[p].id], Frame)
            /\ DOMAIN store'[msg[p].id] \ DOMAIN store[msg[p].id] \subseteq
                 MealFields]_vars

\* A successful update whose mealData carried a date other than the
\* record's.
C19_Witness ==
  \E p \in Procs :
    /\ pc[p] = "closing"
    /\ msg[p].kind = "updateOne"
    /\ res[p].kind = "return"
    /\ Has(msg[p].data, "date")
    /\ store[msg[p].id].date # NewDate(msg[p].data.date)
    /\ store[msg[p].id].updatedAt > store[msg[p].id].createdAt

\* C20: every stored record has a userId, a mealType and a description
\* (none absent or null), whatever create and update were given.
C20_RequiredPresent ==
  \A id \in DOMAIN store :
    Has(store[id], "userId") /\ Has(store[id], "mealType")
      /\ Has(store[id], "description")

\* C21: every stored record's calories, carbs, protein and fat are numbers
\* that are not negative, whatever numbers create and update were given, and
\* so is every total of a daily_summary response.
C21_NonNegative ==
  /\ \A id \in DOMAIN store :
       \A f \in NumFields : Has(store[id], f) => store[id][f] >= 0
  /\ \A p \in Procs :
       IsSummary(res[p]) =>
         /\ res[p].data.summary.totalCalories >= 0
         /\ res[p].data.summary.totalCarbs >= 0
         /\ res[p].data.summary.totalProtein >= 0
         /\ res[p].data.summary.totalFat >= 0

\* C22: a read and a daily_summary of the same userId, called at the same
\* clock instant and answered from the same store state, list the same set
\* of meal ids, and the summary's mealCount is the read's totalMeals.
C22_SameSelection ==
  [][\A p, q \in Procs :
       (/\ Served(p) /\ msg[p].op = "read"
        /\ pc[q] = "sent" /\ msg[q].op = "daily_summary"
        /\ msg[q].q.filter = msg[p].q.filter
        /\ msg[q].at = msg[p].at)
       => \A ids \in Cursor(msg[q].q, msg[q].sorted) :
            LET s == SummaryResult(msg[q].q, ids) IN
              /\ Listed(s) = Listed(res'[p])
              /\ s.data.summary.mealCount = res'[p].data.totalMeals
              /\ res'[p].data.totalMeals = Cardinality(Listed(res'[p]))]_vars

\* A read has listed a meal while a daily_summary of the same user and
\* instant is waiting for the same store.
C22_Witness ==
  \E p, q \in Procs :
    /\ pc[p] = "closing" /\ msg[p].op = "read" /\ res[p].kind = "return"
    /\ pc[q] = "sent" /\ msg[q].op = "daily_summary"
    /\ msg[q].q.filter = msg[p].q.filter
    /\ msg[q].at = msg[p].at
    /\ Listed(res[p]) # {}

\* The steps invocation p can take, as pairs of positions.
Connects(p) == pc[p] = "connecting" /\ pc'[p] = "connected"
Requests(p) == pc[p] = "connected" /\ pc'[p] = "sent"
Skips(p) == pc[p] = "connected" /\ pc'[p] = "closing"
Releases(p) == pc[p] = "closing" /\ pc'[p] = "done"

\* C23: an invocation connects, then sends at most one request, then
\* releases, in this order.  It sends its one request exactly when the
\* operation is supported and the request could be built; when the request
\* has been answered or has failed it only releases (no second request).
C23_OneRequest ==
  /\ [](\A p \in Procs : pc[p] \in {"connected", "sent", "closing"} <=> conn[p])
  /\ [][\A p \in Procs :
          pc'[p] # pc[p] =>
            \/ pc[p] = "idle" /\ pc'[p] = "connecting"
            \/ Connects(p) /\ conn'[p]
            \/ pc[p] = "connecting" /\ pc'[p] = "done" /\ res'[p].kind = "throw"
            \/ /\ Requests(p)
               /\ msg'[p].op \in Supported
               /\ msg'[p].kind \in {"insertOne", "find", "updateOne", "deleteOne"}
            \/ /\ Skips(p)
               /\ msg'[p].kind = "none"
               /\ \/ msg'[p].op \notin Supported
                  \/ res'[p] \in {Throw("TypeError"), Throw("BSONError")}
            \/ Answers(p)
            \/ Releases(p) /\ ~conn'[p]
            \/ pc[p] = "done" /\ pc'[p] = "idle"]_vars

\* An invocation whose one request failed has released and ended.
C23_Witness ==
  \E p, q \in Procs :
    /\ pc[p] = "done" /\ res[p] = Throw(StoreFailure) /\ ~conn[p]
    /\ pc[q] = "done" /\ res[q] = Throw("TypeError")
    /\ store # Nil

\* The stored records whose content this step changes.
Changed == {id \in DOMAIN store \cap DOMAIN store' : store'[id] # store[id]}

\* C24: an update the store serves adds and removes no record and changes
\* at most the record whose id is mealId; it returns a modifiedCount of 0 or
\* 1 that is the number of records whose content it changed, and changes
\* nothing when it fails.
C24_ModifiedCount ==
  [][\A p \in Procs :
       (Served(p) /\ msg[p].kind = "updateOne") =>
         /\ DOMAIN store' = DOMAIN store
         /\ Changed \subseteq {msg[p].id}
         /\ res'[p].kind = "return" =>
              /\ res'[p].data.modifiedCount \in {0, 1}
              /\ res'[p].data.modifiedCount = Cardinality(Changed)
         /\ res'[p].kind = "throw" => Changed = {}]_vars

\* An update that matched one of two stored records and changed nothing.
C24_Witness ==
  \E p \in Procs :
    /\ pc[p] = "closing"
    /\ msg[p].kind = "updateOne"
    /\ res[p].kind = "return"
    /\ res[p].data.modifiedCount = 0
    /\ Cardinality(DOMAIN store) = 2

\* What an update (data d, called at time t) or a delete of id does to the
\* store, and what it returns: no userId enters.
SetOf(d, t) ==
  ("updatedAt" :> t)
  @@ [f \in {g \in StrFields \cap DOMAIN d : d[g] # ""} |-> d[f]]
  @@ [f \in NumFields \cap DOMAIN d |-> d[f]]
StoreAfter(m) ==
  IF m.id \notin DOMAIN store THEN store
  ELSE IF m.kind = "deleteOne" THEN Without(store, m.id)
  ELSE [store EXCEPT ![m.id] = SetOf(m.data, m.at) @@ @]
ResultOf(m) ==
  IF m.id \notin DOMAIN store THEN Throw(NotFound)
  ELSE IF m.kind = "deleteOne" THEN Return(TRUE, [deletedCount |-> 1])
  ELSE Return(TRUE, [modifiedCount |->
         IF SetOf(m.data, m.at) @@ store[m.id] = store[m.id] THEN 0 ELSE 1])

Supplied(p, q, f) ==
  {m.data[f] : m \in {n \in {msg[p], msg[q]} : Has(n.data, f)}}

\* C26: when two updates of the same record have both been applied, each
\* updatable field that one of them supplied holds a value one of them
\* supplied for it (so with disjoint fields every supplied value is there),
\* and an update leaves a field it does not supply at its prior value.
C26_NoLostWrite ==
  /\ [](\A p, q \in Procs :
          (/\ p # q
           /\ pc[p] = "closing" /\ pc[q] = "closing"
           /\ msg[p].kind = "updateOne" /\ msg[q].kind = "updateOne"
           /\ msg[p].id = msg[q].id
           /\ res[p].kind = "return" /\ res[q].kind = "return")
          => \A f \in MealFields :
               Supplied(p, q, f) # {} =>
                 store[msg[p].id][f] \in Supplied(p, q, f))
  /\ [][\A p \in Procs :
          Updates(p) =>
            \A f \in MealFields \ DOMAIN msg[p].data :
              Only(store'[msg[p].id], {f}) = Only(store[msg[p].id], {f})]_vars

\* Invocations p and q have both had a delete of the same id answered.
BothDeleted(p, q) ==
  /\ p # q
  /\ pc[p] = "closing" /\ pc[q] = "closing"
  /\ msg[p].kind = "deleteOne" /\ msg[q].kind = "deleteOne"
  /\ msg[p].id = msg[q].id
  /\ res[p] # Throw(StoreFailure) /\ res[q] # Throw(StoreFailure)

\* C27: a delete applied while the record is stored succeeds with
\* deletedCount 1 and removes the record; of two overlapping deletes of the
\* same id at most one succeeds and every other one fails with the
\* not-found error; a successful delete never reports a count other than 1.
C27_OneDeleteWins ==
  /\ [](\A p, q \in Procs :
          BothDeleted(p, q) =>
            /\ ~(res[p].kind = "return" /\ res[q].kind = "return")
            /\ \A r \in {res[p], res[q]} :
                 \/ r = Return(TRUE, [deletedCount |-> 1])
                 \/ r = Throw(NotFound))
  /\ [][\A p \in Procs :
          (Served(p) /\ msg[p].kind = "deleteOne" /\ msg[p].id \in DOMAIN store)
            => /\ res'[p] = Return(TRUE, [deletedCount |-> 1])
               /\ msg[p].id \notin DOMAIN store']_vars

\* Two overlapping deletes of a record that was stored: one has succeeded
\* and the other has failed with not-found.
C27_Witness ==
  \E p, q \in Procs :
    /\ BothDeleted(p, q)
    /\ msg[p].id \in deleted
    /\ res[p] = Return(TRUE, [deletedCount |-> 1])
    /\ res[q] = Throw(NotFound)

\* The ids of the stored records.
StoredIds == DOMAIN store

\* C28: the set of stored ids changes only when the store answers a
\* request: a successful create adds exactly one id that was not stored, a
\* successful delete removes exactly the id it names, and every other step
\* (a read, a daily_summary, an update that succeeds or fails, a failed
\* delete, an unsupported operation, connecting and closing) leaves the ids
\* as they are; apart from creates, deletes and updates no step changes any
\* field of any record.
C28_IdsFrame ==
  [][/\ \A p \in Procs :
          Answers(p) =>
            CASE msg[p].kind = "insertOne" /\ res'[p].kind = "return" ->
                   /\ res'[p].data.mealId.hex \notin StoredIds
                   /\ DOMAIN store' = StoredIds \cup {res'[p].data.mealId.hex}
                   /\ \A id \in StoredIds : store'[id] = store[id]
              [] msg[p].kind = "deleteOne" /\ res'[p].kind = "return" ->
                   /\ msg[p].id \in StoredIds
                   /\ DOMAIN store' = StoredIds \ {msg[p].id}
                   /\ \A id \in DOMAIN store' : store'[id] = store[id]
              [] msg[p].kind = "updateOne" ->
                   DOMAIN store' = StoredIds
              [] OTHER -> store' = store
     /\ (\A p \in Procs : ~Answers(p)) => store' = store]_vars

\* A successful delete has removed its record while another one is stored.
C28_Witness ==
  \E p \in Procs :
    /\ pc[p] = "closing" /\ msg[p].kind = "deleteOne"
    /\ res[p].kind = "return"
    /\ store # Nil
    /\ msg[p].id \notin DOMAIN store

\* The local calendar day of instant t.
LocalDay(t) == (t + tz) \div DayTicks

\* C29: the date of a daily_summary response is the local calendar day
\* whose window, from its local midnight to the next one, selected the meals.
C29_LocalDate ==
  \A p \in Procs :
    (pc[p] = "closing" /\ msg[p].op = "daily_summary" /\ res[p].kind = "return")
      => /\ res[p].data.date = LocalDay(msg[p].q.gte)
         /\ LocalDay(msg[p].q.gte - 1) # LocalDay(msg[p].q.gte)
         /\ msg[p].q.lt = msg[p].q.gte + DayTicks

\* The callback the claim expects for data line k of body t.
Expected(t, k) ==
  [cb |-> IF ParsesLine(dataLines(t)[k]) THEN "onComplete" ELSE "onError",
   line |-> k]

\* C30: a sendRequest that was passed both callbacks never rejects; when it
\* has resolved after a body that is empty or one JSON document it has made
\* exactly one callback invocation, and after a body with n data lines
\* exactly n, the k-th for line k: onComplete if the line parses as JSON,
\* onError if not.
C30_OneCallbackPerLine ==
  given = Callbacks =>
    /\ at # "rejected"
    /\ (at = "resolved" /\ text # Unread) =>
         IF dataLines(text) # <<>>
           THEN log = [k \in DOMAIN dataLines(text) |-> Expected(text, k)]
           ELSE (Blank(text) \/ ParsesText(text)) =>
                  /\ Len(log) = 1
                  /\ log[1].cb = "onComplete"

====
